---- MODULE Spec2Model ----
(***************************************************************************)
(* Model of the Selection Model (class Selected, js/selected.js) and of the *)
(* choropleth map (class GeoMap, js/visualizations/geoMap.js) of the        *)
(* World-Development-Indicators dashboard.                                  *)
(*                                                                          *)
(* The state is the fields of one Selected object and of the GeoMap that    *)
(* reads it; every public method and every event handler is one action.     *)
(* Names are strings; an absent (undefined) or empty name is "" (the code   *)
(* only ever tests names for truthiness), an absent year is Undefined.      *)
(* Numbers that the map computes (means, scaled values) are exact           *)
(* fractions.                                                               *)
(***************************************************************************)
EXTENDS Integers, Sequences, FiniteSets, TLC

VARIABLES
    area,               \* this.area = {region, country}
    comparisonAreas,    \* this.comparisonAreas, an ordered list of names
    allSelectedAreas,   \* this.allSelectedAreas, derived list
    indicator,          \* this.indicator
    timeInterval,       \* this.timeInterval: <<>> for {} and <<min, max>> for {min, max}
    dispatcher,         \* this.dispatcher is set (truthy)
    dispatcherEvents,   \* this.dispatcherEvents is set (truthy)
    emitted,            \* ERROR_TOO_MANY_COMPARISONS events the last call sent to the dispatcher
    lastCall,           \* the last method called, with its arguments
    \* GeoMap
    data,               \* vis.data, the observations
    selectedYears,      \* vis.selected.selectedYears, the active year set
    groupedData,        \* vis.groupedData: country code -> mean
    domain,             \* vis.indicatorScale.domain()
    countryCodesOfSelected, \* vis.countryCodesOfSelected
    selectedCountries,  \* vis.selectedCountries, as the ids of the features
    viewport,           \* the map view: "default" or "fitted" to the selection
    baseLayer,          \* the .map-country paths: feature id -> attributes
    selectedLayer,      \* the .map-selected-country paths: feature id -> attributes
    legend,             \* the legend rows: colour box and label
    tooltip,            \* the #tooltip element
    hovered,            \* the path under the pointer, NoTarget when none
    hoverEvents,        \* MAP_ITEM_HOVER / MAP_ITEM_UNHOVER events the last handler sent
    lookups,            \* Country Directory lookups the last handler made
    lastEvent,          \* the last render cycle or pointer event, with its target
    tile                \* a scaled value and the colour getTileColor gave it

selectedVars == <<area, comparisonAreas, allSelectedAreas, indicator, timeInterval,
                  dispatcher, dispatcherEvents, emitted, lastCall>>

\* what only a render cycle writes
renderVars == <<groupedData, domain, countryCodesOfSelected, selectedCountries,
                viewport, legend>>

\* the rendered paths
pathVars == <<baseLayer, selectedLayer>>

pointerVars == <<tooltip, hovered, hoverEvents, lookups>>

geoMapVars == <<data, selectedYears, renderVars, pathVars, pointerVars, lastEvent, tile>>

vars == <<selectedVars, geoMapVars>>

selection == <<area, comparisonAreas, allSelectedAreas, indicator, timeInterval>>

-----------------------------------------------------------------------------
(* Bounds and input sets *)

\* the years a caller passes are 0..MaxYear (0 is a falsy number) or absent
MaxYear == 2

\* the names added to and removed from the comparison list under the map
MapAreaNames == {"France", "South Korea"}

\* an absent (undefined) numeric argument
Undefined == -1

YearArgs == {Undefined} \cup (0..MaxYear)

\* the list new Selected(area, selectedComparisonAreas) is given has at most
\* MaxInitialAreas entries
MaxInitialAreas == 3

\* if (this.comparisonAreas.length >= 4)
MaxComparisonAreas == 4

POPULATION_TOTAL == "POPULATION_TOTAL"

\* names a caller passes to addComparisonArea / removeComparisonArea
AreaNames == {"", "World", "Europe", "europe", "Asia", "France",
              "South Korea", "Korea, Rep."}

\* the regions and countries a caller passes to setArea ("" is absent)
RegionArgs == {"", "World", "Europe"}

CountryArgs == {"", "France", "South Korea"}

\* the arguments of the specifications that run every mutator
ItemAreaNames == {"Europe", "South Korea"}

ItemRegionArgs == {"", "Europe"}

ItemCountryArgs == {"", "South Korea"}

ItemIndicatorArgs == {"", "GDP"}

-----------------------------------------------------------------------------
(* External collaborators: InputSanitizer, RegionMapper, Countries *)

\* InputSanitizer.formatCountryOrRegionNames: case/whitespace canonicalization
formatCountryOrRegionNames(name) ==
    CASE name = "europe" -> "Europe"
      [] name = "france" -> "France"
      [] OTHER -> name

\* RegionMapper.getCountriesOfRegion: the country names of a region
getCountriesOfRegion(region) ==
    CASE region = "World" -> {"France", "South Korea"}
      [] region = "Europe" -> {"France"}
      [] OTHER -> {}

\* the directory's canonical spelling of a country name
CanonicalCountryName(name) ==
    IF name = "Korea, Rep." THEN "South Korea" ELSE name

\* Countries.isSameCountryName: equality up to alternate spellings
isSameCountryName(a, b) == CanonicalCountryName(a) = CanonicalCountryName(b)

-----------------------------------------------------------------------------
(* JavaScript array primitives *)

\* Array.prototype.includes
Includes(list, x) == \E i \in 1..Len(list) : list[i] = x

IndexOf_Last(list, x) ==
    IF Includes(list, x)
    THEN (CHOOSE i \in 1..Len(list) :
             list[i] = x /\ \A j \in (i + 1)..Len(list) : list[j] # x) - 1
    ELSE -1

\* Array.prototype.indexOf: 0-based index of the first match, -1 when none
IndexOf(list, x) ==
    IF Includes(list, x)
    THEN (CHOOSE i \in 1..Len(list) :
             list[i] = x /\ \A j \in 1..(i - 1) : list[j] # x) - 1
    ELSE -1

\* Array.prototype.splice(index, 1): a negative index counts from the end
Splice1(list, index) ==
    LET start == IF index < 0
                 THEN (IF Len(list) + index < 0 THEN 0 ELSE Len(list) + index)
                 ELSE index
    IN  IF start >= Len(list) THEN list
        ELSE [i \in 1..(Len(list) - 1) |->
                 IF i <= start THEN list[i] ELSE list[i + 1]]

\* JavaScript truthiness of a name and of a year argument
TruthyName(s) == s # ""
TruthyYear(y) == y # Undefined /\ y # 0

-----------------------------------------------------------------------------
(* Helpers of class Selected *)

updateAllSelectedAreas_RegionFirst(a, list) ==
    <<formatCountryOrRegionNames(a.region)>> \o list

updateAllSelectedAreas(a, list) ==
    LET region == formatCountryOrRegionNames(a.region)
        country == formatCountryOrRegionNames(a.country)
    IN  IF country # "" THEN <<country>> \o list ELSE <<region>> \o list

isFocusCountryInList(list, focusedCountry) ==
    /\ TruthyName(focusedCountry)
    /\ \E i \in 1..Len(list) : isSameCountryName(list[i], focusedCountry)

updateComparisonArea(list, region, country) ==
    LET isFocusRegionInList == Includes(list, region)
    IN  IF isFocusCountryInList(list, country)
        THEN Splice1(list, IndexOf(list, country))
        ELSE IF isFocusRegionInList
             THEN Splice1(list, IndexOf(list, region))
             ELSE list

setCountry_AnyCountry(a, country) ==
    IF TruthyName(country) THEN [a EXCEPT !.country = country] ELSE a

setCountry(a, country) ==
    IF TruthyName(country) /\ country \in getCountriesOfRegion(a.region)
    THEN [a EXCEPT !.country = country]
    ELSE a

Call(op, name, region, country, ind, min, max) ==
    [op |-> op, name |-> name, region |-> region, country |-> country,
     indicator |-> ind, min |-> min, max |-> max]

-----------------------------------------------------------------------------
(* The state after new Selected() *)

InitSelected ==
    /\ area = [region |-> "World", country |-> ""]
    /\ comparisonAreas = <<>>
    /\ indicator = POPULATION_TOTAL
    /\ timeInterval = <<>>
    /\ allSelectedAreas = updateAllSelectedAreas(area, comparisonAreas)
    /\ dispatcher = FALSE
    /\ dispatcherEvents = FALSE
    /\ emitted = 0
    /\ lastCall = Call("constructor", "", "", "", "", Undefined, Undefined)

-----------------------------------------------------------------------------
(* Public methods *)

\* let isFocusArea = this.area.region === name || this.area.country === name
isFocusArea(name) == area.region = name \/ area.country = name

isComparisonListFull_OffByOne == Len(comparisonAreas) > MaxComparisonAreas

\* let isComparisonListFull = this.comparisonAreas.length >= 4
isComparisonListFull == Len(comparisonAreas) >= MaxComparisonAreas

\* let isAlreadyInList = this.comparisonAreas.includes(name)
isAlreadyInList(name) == Includes(comparisonAreas, name)

dispatchTooManyComparisons_NoEvents ==
    IF dispatcher /\ ~dispatcherEvents THEN 1 ELSE 0

\* if (this.dispatcher && this.dispatcherEvents) this.dispatcher.call(...):
\* the number of ERROR_TOO_MANY_COMPARISONS events sent
dispatchTooManyComparisons ==
    IF dispatcher /\ dispatcherEvents THEN 1 ELSE 0

addComparisonArea(countryOrRegion) ==
    LET name == formatCountryOrRegionNames(countryOrRegion)
    IN  /\ IF ~isFocusArea(name) /\ ~isComparisonListFull /\ ~isAlreadyInList(name)
           THEN /\ comparisonAreas' = Append(comparisonAreas, name)
                /\ emitted' = 0
           ELSE /\ comparisonAreas' = comparisonAreas
                /\ emitted' = IF isComparisonListFull
                              THEN dispatchTooManyComparisons ELSE 0
        /\ allSelectedAreas' = updateAllSelectedAreas(area, comparisonAreas')
        /\ lastCall' = Call("addComparisonArea", countryOrRegion, "", "", "",
                            Undefined, Undefined)
        /\ UNCHANGED <<area, indicator, timeInterval, dispatcher, dispatcherEvents>>

removeComparisonArea(countryOrRegion) ==
    LET index == IndexOf(comparisonAreas, countryOrRegion)
    IN  /\ IF index > -1
           THEN /\ comparisonAreas' = Splice1(comparisonAreas, index)
                /\ allSelectedAreas' = updateAllSelectedAreas(area, comparisonAreas')
           ELSE UNCHANGED <<comparisonAreas, allSelectedAreas>>
        /\ emitted' = 0
        /\ lastCall' = Call("removeComparisonArea", countryOrRegion, "", "", "",
                            Undefined, Undefined)
        /\ UNCHANGED <<area, indicator, timeInterval, dispatcher, dispatcherEvents>>

\* the assignments of setArea({region, country})
setAreaBody(region, country) ==
    /\ area' = setCountry(
                 [area EXCEPT !.region = IF ~TruthyName(region) THEN area.region
                                         ELSE formatCountryOrRegionNames(region)],
                 country)
    /\ comparisonAreas' = updateComparisonArea(comparisonAreas, region, country)
    /\ allSelectedAreas' = updateAllSelectedAreas(area', comparisonAreas')

setIndicatorBody(ind) ==
    indicator' = IF TruthyName(ind) THEN ind ELSE indicator

setTimeIntervalBody_Merge(min, max) ==
    LET old == IF timeInterval = <<>> THEN <<Undefined, Undefined>> ELSE timeInterval
    IN  timeInterval' =
            IF TruthyYear(min) \/ TruthyYear(max)
            THEN <<IF TruthyYear(min) THEN min ELSE old[1],
                   IF TruthyYear(max) THEN max ELSE old[2]>>
            ELSE timeInterval

setTimeIntervalBody(min, max) ==
    timeInterval' = IF TruthyYear(min) /\ TruthyYear(max) THEN <<min, max>>
                    ELSE timeInterval

setArea(region, country) ==
    /\ setAreaBody(region, country)
    /\ emitted' = 0
    /\ lastCall' = Call("setArea", "", region, country, "", Undefined, Undefined)
    /\ UNCHANGED <<indicator, timeInterval, dispatcher, dispatcherEvents>>

setIndicator(ind) ==
    /\ setIndicatorBody(ind)
    /\ emitted' = 0
    /\ lastCall' = Call("setIndicator", "", "", "", ind, Undefined, Undefined)
    /\ UNCHANGED <<area, comparisonAreas, allSelectedAreas, timeInterval,
                   dispatcher, dispatcherEvents>>

setTimeInterval(min, max) ==
    /\ setTimeIntervalBody(min, max)
    /\ emitted' = 0
    /\ lastCall' = Call("setTimeInterval", "", "", "", "", min, max)
    /\ UNCHANGED <<area, comparisonAreas, allSelectedAreas, indicator,
                   dispatcher, dispatcherEvents>>

setItems(region, country, ind, minYear, maxYear) ==
    /\ setAreaBody(region, country)
    /\ setIndicatorBody(ind)
    /\ setTimeIntervalBody(minYear, maxYear)
    /\ emitted' = 0
    /\ lastCall' = Call("setItems", "", region, country, ind, minYear, maxYear)
    /\ UNCHANGED <<dispatcher, dispatcherEvents>>

setDispatcher(d, events) ==
    /\ dispatcher' = d
    /\ dispatcherEvents' = events
    /\ emitted' = 0
    /\ lastCall' = Call("setDispatcher", "", "", "", "", Undefined, Undefined)
    /\ UNCHANGED selection

-----------------------------------------------------------------------------
(* GeoMap: numbers *)

RECURSIVE GCD(_, _)
GCD(a, b) == IF b = 0 THEN a ELSE GCD(b, a % b)

Abs(n) == IF n < 0 THEN 0 - n ELSE n

\* the number n/d (d > 0), in lowest terms
Rat(n, d) ==
    LET g == GCD(Abs(n), d)
    IN  [nan |-> FALSE, num |-> n \div g, den |-> d \div g]

\* NaN; undefined coerced to a number is NaN too
NaN == [nan |-> TRUE, num |-> 0, den |-> 1]

isNaN(x) == x.nan

\* x > y and x === y on numbers: false when either is NaN
Greater(x, y) == ~x.nan /\ ~y.nan /\ x.num * y.den > y.num * x.den
StrictEq(x, y) == ~x.nan /\ ~y.nan /\ x.num * y.den = y.num * x.den

Minus(x, y) ==
    IF x.nan \/ y.nan THEN NaN
    ELSE Rat(x.num * y.den - y.num * x.den, x.den * y.den)

Plus(x, y) ==
    IF x.nan \/ y.nan THEN NaN
    ELSE Rat(x.num * y.den + y.num * x.den, x.den * y.den)

Times(x, y) ==
    IF x.nan \/ y.nan THEN NaN ELSE Rat(x.num * y.num, x.den * y.den)

\* x / y for y # 0
Over(x, y) ==
    IF x.nan \/ y.nan THEN NaN
    ELSE IF y.num < 0 THEN Rat((0 - x.num) * y.den, x.den * (0 - y.num))
    ELSE Rat(x.num * y.den, x.den * y.num)

\* the scaled values given to getTileColor are the fractions of [0, 1] with
\* denominator 5, 10, ... 5 * ScaleDetail, and NaN
ScaleDetail == 8

TileInputs ==
    UNION {{Rat(n, 5 * k) : n \in 0..(5 * k)} : k \in 1..ScaleDetail} \cup {NaN}

-----------------------------------------------------------------------------
(* GeoMap: inputs *)

\* the observations of a data set are at most MaxObservations
MaxObservations == 2

DataCountryCodes == {"FRA", "KOR", "WLD"}
DataIndicators == {POPULATION_TOTAL, "GDP"}
DataYears == {1, 2}
DataValues == {0, 2}

\* selected.selectedYears: no year, one year, every year
ActiveYearSets == {{}, {1}, DataYears}

Observations ==
    [CountryCode : DataCountryCodes, IndicatorName : DataIndicators,
     Year : DataYears, Value : DataValues]

DataSets == UNION {[1..n -> Observations] : n \in 0..MaxObservations}

\* the data set of the specifications that do not vary the data:
\* France has two observations, South Korea has none
SampleData ==
    << [CountryCode |-> "FRA", IndicatorName |-> POPULATION_TOTAL, Year |-> 1, Value |-> 0],
       [CountryCode |-> "FRA", IndicatorName |-> POPULATION_TOTAL, Year |-> 2, Value |-> 2],
       [CountryCode |-> "WLD", IndicatorName |-> POPULATION_TOTAL, Year |-> 1, Value |-> 2] >>

\* vis.countries.features: the id and properties.name of each feature.  Id 0
\* stands for a feature without an id, 900 for an id the Country Directory
\* does not know, a negative id for one that is not a country code
Features ==
    { [id |-> 250, name |-> "France"],
      [id |-> 410, name |-> "South Korea"],
      [id |-> 900, name |-> "Kosovo"],
      [id |-> -99, name |-> "Somaliland"],
      [id |-> 0,   name |-> "Northern Cyprus"] }

FeatureIds == {f.id : f \in Features}

-----------------------------------------------------------------------------
(* External collaborators: CountryCodeMapper, ColourPalette *)

\* CountryCodeMapper.getCountryNumCode: Undefined for a name that is no country
getCountryNumCode(name) ==
    CASE CanonicalCountryName(name) = "France" -> 250
      [] CanonicalCountryName(name) = "South Korea" -> 410
      [] OTHER -> Undefined

\* CountryCodeMapper.getCountryNumCodes: the codes of the names that are countries
getCountryNumCodes(names) ==
    {getCountryNumCode(names[i]) : i \in 1..Len(names)} \ {Undefined}

\* CountryCodeMapper.convertToAlpha3: "" (undefined) for an unknown code
convertToAlpha3(code) ==
    CASE code = 250 -> "FRA"
      [] code = 410 -> "KOR"
      [] OTHER -> ""

\* CountryCodeMapper.getAllInfoOfCountry: undefined fields for an unknown code
getAllInfoOfCountry(code) ==
    CASE code = 250 -> [alpha_3 |-> "FRA", countryName |-> "France"]
      [] code = 410 -> [alpha_3 |-> "KOR", countryName |-> "South Korea"]
      [] OTHER -> [alpha_3 |-> "", countryName |-> ""]

\* ColourPalette.getFocusedAreaColour / getComparisonAreaColour
FocusedAreaColour == "focus"
ComparisonAreaColour == "comparison"

-----------------------------------------------------------------------------
(* GeoMap: aggregation and scale *)

RECURSIVE SumValues(_)
SumValues(obs) ==
    IF obs = <<>> THEN 0 ELSE Head(obs).Value + SumValues(Tail(obs))

\* d3.mean(v, i => i.Value)
Mean(obs) == Rat(SumValues(obs), Len(obs))

updateData_filteredData_AnyIndicator(obs, years, ind) ==
    SelectSeq(obs, LAMBDA d : d.Year \in years)

\* this.data.filter(d => selectedYears.includes(d.Year) && d.IndicatorName == indicator)
updateData_filteredData(obs, years, ind) ==
    SelectSeq(obs, LAMBDA d : d.Year \in years /\ d.IndicatorName = ind)

\* d3.rollup(filteredData, mean, d => d.CountryCode), then "WLD" deleted
updateData_groupedData(obs, years, ind) ==
    LET filteredData == updateData_filteredData(obs, years, ind)
        keys == {filteredData[i].CountryCode : i \in 1..Len(filteredData)}
    IN  [c \in keys \ {"WLD"} |->
            Mean(SelectSeq(filteredData, LAMBDA d : d.CountryCode = c))]

Get_ZeroForMissing(grouped, key) ==
    IF key \in DOMAIN grouped THEN grouped[key] ELSE Rat(0, 1)

\* Map.prototype.get: undefined (NaN as a number) for a missing key
Get(grouped, key) == IF key \in DOMAIN grouped THEN grouped[key] ELSE NaN

\* d3.extent(values): [undefined, undefined] of no values
Extent(grouped) ==
    IF DOMAIN grouped = {} THEN <<NaN, NaN>>
    ELSE << CHOOSE v \in {grouped[c] : c \in DOMAIN grouped} :
               \A c \in DOMAIN grouped : ~Greater(v, grouped[c]),
            CHOOSE v \in {grouped[c] : c \in DOMAIN grouped} :
               \A c \in DOMAIN grouped : ~Greater(grouped[c], v) >>

updateDomain_NoDegenerateRule(grouped) == Extent(grouped)

\* max = max === 0 && max === min ? 1 : max
updateDomain(grouped) ==
    LET min == Extent(grouped)[1]
        max == Extent(grouped)[2]
    IN  IF StrictEq(max, Rat(0, 1)) /\ StrictEq(max, min)
        THEN <<min, Rat(1, 1)>>
        ELSE <<min, max>>

\* d3.scaleLinear().range([0, 1]).domain(dom): NaN for a NaN input or domain,
\* 0.5 for a domain of width 0
indicatorScale(dom, x) ==
    LET width == Minus(dom[2], dom[1])
    IN  IF x.nan \/ width.nan THEN NaN
        ELSE IF width.num = 0 THEN Rat(1, 2)
        ELSE Over(Minus(x, dom[1]), width)

\* indicatorScale.invert
indicatorScaleInvert(dom, t) ==
    Plus(dom[1], Times(t, Minus(dom[2], dom[1])))

getTileColor_InclusiveBounds(d) ==
    IF Greater(d, Rat(4, 5)) \/ StrictEq(d, Rat(4, 5)) THEN "#08519c"
    ELSE IF Greater(d, Rat(3, 5)) \/ StrictEq(d, Rat(3, 5)) THEN "#3182bd"
    ELSE IF Greater(d, Rat(2, 5)) \/ StrictEq(d, Rat(2, 5)) THEN "#6baed6"
    ELSE IF Greater(d, Rat(1, 5)) \/ StrictEq(d, Rat(1, 5)) THEN "#bdd7e7"
    ELSE IF isNaN(d) THEN "#808080"
    ELSE "#eff3ff"

getTileColor(d) ==
    IF Greater(d, Rat(4, 5)) THEN "#08519c"
    ELSE IF Greater(d, Rat(3, 5)) THEN "#3182bd"
    ELSE IF Greater(d, Rat(2, 5)) THEN "#6baed6"
    ELSE IF Greater(d, Rat(1, 5)) THEN "#bdd7e7"
    ELSE IF isNaN(d) THEN "#808080"
    ELSE "#eff3ff"

getFillColour(grouped, dom, id) ==
    getTileColor(indicatorScale(dom, Get(grouped, convertToAlpha3(id))))

-----------------------------------------------------------------------------
(* GeoMap: render cycle *)

StrokeWidth == 1

\* scaled values of the legend rows: bins = [1, 0.8, 0.6, 0.4, 0.2, NaN]
LegendBins == <<Rat(1, 1), Rat(4, 5), Rat(3, 5), Rat(2, 5), Rat(1, 5), NaN>>

\* the text 'N/A'
NA == [na |-> TRUE, value |-> NaN]

\* the text of a number
NumberText(x) == [na |-> FALSE, value |-> x]

\* vis.format: a value above 100 rounded to an integer, any other to 2 decimals
format(val) ==
    IF val.nan THEN NumberText(NaN)
    ELSE IF val.num > 100 * val.den
         THEN NumberText(Rat((2 * val.num + val.den) \div (2 * val.den), 1))
    ELSE IF val.num >= 0
         THEN NumberText(Rat((200 * val.num + val.den) \div (2 * val.den), 100))
    ELSE NumberText(Rat(0 - ((200 * (0 - val.num) + val.den) \div (2 * val.den)), 100))

getBorderColour_ComparisonFirst(a, codes, id) ==
    IF id \in codes THEN ComparisonAreaColour
    ELSE IF id = getCountryNumCode(a.country) THEN FocusedAreaColour
    ELSE "white"

getBorderColour(a, codes, id) ==
    LET focusCountryCode == getCountryNumCode(a.country)
    IN  IF id = focusCountryCode THEN FocusedAreaColour
        ELSE IF id \in codes THEN ComparisonAreaColour
        ELSE "white"

getStrokeWidth(codes, id) ==
    IF id \in codes THEN StrokeWidth * 2 ELSE StrokeWidth

\* x rounded to a multiple of 1/unitsPerOne, halves upwards (x >= 0)
RoundTo(x, unitsPerOne) ==
    Rat((2 * unitsPerOne * x.num + x.den) \div (2 * x.den), unitsPerOne)

\* d3.format('.2~s'): two significant digits; written for 0 and for the
\* values from 0.01 below 100, which are the ones the inputs can produce
legendFormat(x) ==
    IF x.nan THEN NumberText(NaN)
    ELSE IF x.num >= 10 * x.den THEN NumberText(RoundTo(x, 1))
    ELSE IF x.num >= x.den THEN NumberText(RoundTo(x, 10))
    ELSE IF 10 * x.num >= x.den THEN NumberText(RoundTo(x, 100))
    ELSE NumberText(RoundTo(x, 1000))

renderLegend(ind, dom) ==
    [title |-> ind,
     rows |-> [i \in 1..Len(LegendBins) |->
                 [colour |-> getTileColor(LegendBins[i]),
                  label |-> IF isNaN(LegendBins[i]) THEN NA
                            ELSE legendFormat(indicatorScaleInvert(dom, LegendBins[i]))]]]

renderAllCountriesWithWhiteBorder(grouped, dom) ==
    [id \in FeatureIds |->
        [fill |-> getFillColour(grouped, dom, id), stroke |-> "white"]]

renderSelectedCountries(a, codes, ids) ==
    [id \in ids |->
        [fill |-> "none",
         stroke |-> getBorderColour(a, codes, id),
         strokeWidth |-> getStrokeWidth(codes, id)]]

NoTarget == [layer |-> "none", id |-> 0]

\* an event, its target, and the type of the event before it
Event(type, t) == [type |-> type, target |-> t, previous |-> lastEvent.type]

\* updateVis on the selection as it is after this step: updateData,
\* updateMapBounds, updateDomain, renderVis
updateVis ==
    /\ countryCodesOfSelected' = getCountryNumCodes(allSelectedAreas')
    /\ selectedCountries' = {id \in FeatureIds : id \in countryCodesOfSelected'}
    /\ groupedData' = updateData_groupedData(data, selectedYears, indicator')
    /\ viewport' = IF selectedCountries' # {} THEN "fitted" ELSE "default"
    /\ domain' = updateDomain(groupedData')
    /\ legend' = renderLegend(indicator', domain')
    /\ baseLayer' = renderAllCountriesWithWhiteBorder(groupedData', domain')
    /\ selectedLayer' =
           renderSelectedCountries(area', countryCodesOfSelected', selectedCountries')
    /\ lastEvent' = Event("render", NoTarget)
    /\ UNCHANGED <<data, selectedYears, pointerVars, tile>>

-----------------------------------------------------------------------------
(* GeoMap: pointer events *)

\* a class name is the sequence of its parts between '-'; a part is a word
\* or the digits of a number
Word(w) == [isNumber |-> FALSE, word |-> w, number |-> 0]
Digits(n) == [isNumber |-> TRUE, word |-> "", number |-> n]

\* the parts of the text of an id: '-99' splits into '' and '99'
IdParts(id) == IF id < 0 THEN <<Word(""), Digits(0 - id)>> ELSE <<Digits(id)>>

LayerClass(layer) ==
    IF layer = "selected" THEN <<Word("map"), Word("selected"), Word("country")>>
    ELSE <<Word("map"), Word("country")>>

\* e.target.classList: the class of the layer, and the class with the id
\* when d.id is truthy
ClassList(t) ==
    IF t.id # 0 THEN <<LayerClass(t.layer), LayerClass(t.layer) \o IdParts(t.id)>>
    ELSE <<LayerClass(t.layer)>>

parseInt(part) ==
    IF part.isNumber THEN [kind |-> "number", value |-> part.number]
    ELSE [kind |-> "NaN", value |-> 0]

\* classes[1] ? parseInt(classes[1].split('-')[2]) : absent
countryCodeOf(classes, absent) ==
    IF Len(classes) >= 2 THEN parseInt(classes[2][3])
    ELSE [kind |-> absent, value |-> 0]

\* isNaN(countryCode): false and null convert to 0
isNaNCode(code) == code.kind = "NaN"

\* the value false or null as a country code: equal to no id and no code
NotACode == -2

CodeValue(code) == IF code.kind = "number" THEN code.value ELSE NotACode

setBorderColourOfCountry_BaseLayerOnly(layer, inSelectedLayer, codes, code, colour) ==
    [id \in DOMAIN layer |->
        IF id = code /\ id # 0 /\ ~inSelectedLayer
        THEN [layer[id] EXCEPT !.stroke = colour]
        ELSE layer[id]]

\* the paths that d3.selectAll('.' + classOfInterest) finds get the colour
setBorderColourOfCountry(layer, inSelectedLayer, codes, code, colour) ==
    [id \in DOMAIN layer |->
        IF id = code /\ id # 0 /\ (code \in codes) = inSelectedLayer
        THEN [layer[id] EXCEPT !.stroke = colour]
        ELSE layer[id]]

HiddenTooltip ==
    [display |-> FALSE, name |-> "", interval |-> <<>>, indicator |-> "", average |-> NA]

\* average ? vis.format(average) : 'N/A'
tooltipAverage(average) ==
    IF ~average.nan /\ average.num # 0 THEN format(average) ELSE NA

showTooltip(code, alpha_3, countryName) ==
    LET average == tooltipAverage(Get(groupedData, alpha_3))
        fromGeoJson == {f \in Features : f.id = code}
        countryNameFromGeoJson ==
            IF fromGeoJson # {} THEN (CHOOSE f \in fromGeoJson : TRUE).name ELSE ""
    IN  IF countryName # "" \/ countryNameFromGeoJson # ""
        THEN [display |-> TRUE,
              name |-> IF countryName # "" THEN countryName ELSE countryNameFromGeoJson,
              interval |-> timeInterval,
              indicator |-> indicator,
              average |-> average]
        ELSE tooltip

\* the paths a pointer event can come from
Rendered(t) ==
    \/ t.layer = "base" /\ t.id \in DOMAIN baseLayer
    \/ t.layer = "selected" /\ t.id \in DOMAIN selectedLayer

Targets == [layer : {"base", "selected"}, id : FeatureIds]

handleMouseEnter(t) ==
    LET countryCode == countryCodeOf(ClassList(t), "false")
        code == CodeValue(countryCode)
        info == getAllInfoOfCountry(code)
    IN  /\ hovered = NoTarget
        /\ Rendered(t)
        /\ hovered' = t
        /\ lastEvent' = Event("mouseenter", t)
        /\ IF ~isNaNCode(countryCode)
           THEN /\ lookups' = 1
                /\ baseLayer' = setBorderColourOfCountry(
                       baseLayer, FALSE, countryCodesOfSelected, code, "black")
                /\ selectedLayer' = setBorderColourOfCountry(
                       selectedLayer, TRUE, countryCodesOfSelected, code, "black")
                /\ tooltip' = showTooltip(code, info.alpha_3, info.countryName)
                /\ hoverEvents' =
                       IF info.countryName # "" /\ Includes(allSelectedAreas, info.countryName)
                       THEN <<[event |-> "MAP_ITEM_HOVER", name |-> info.countryName]>>
                       ELSE <<>>
           ELSE /\ lookups' = 0
                /\ hoverEvents' = <<>>
                /\ UNCHANGED <<pathVars, tooltip>>
        /\ UNCHANGED <<selectedVars, data, selectedYears, renderVars, tile>>

handleMouseLeave(t) ==
    LET countryCode == countryCodeOf(ClassList(t), "null")
        code == CodeValue(countryCode)
        info == getAllInfoOfCountry(code)
        colour == getBorderColour(area, countryCodesOfSelected, code)
    IN  /\ hovered = t
        /\ t # NoTarget
        /\ hovered' = NoTarget
        /\ lastEvent' = Event("mouseleave", t)
        /\ IF ~isNaNCode(countryCode)
           THEN /\ lookups' = 2
                /\ tooltip' = [tooltip EXCEPT !.display = FALSE]
                /\ baseLayer' = setBorderColourOfCountry(
                       baseLayer, FALSE, countryCodesOfSelected, code, colour)
                /\ selectedLayer' = setBorderColourOfCountry(
                       selectedLayer, TRUE, countryCodesOfSelected, code, colour)
                /\ hoverEvents' =
                       IF info.countryName # "" /\ Includes(allSelectedAreas, info.countryName)
                       THEN <<[event |-> "MAP_ITEM_UNHOVER", name |-> info.countryName]>>
                       ELSE <<>>
           ELSE /\ lookups' = 0
                /\ hoverEvents' = <<>>
                /\ UNCHANGED <<pathVars, tooltip>>
        /\ UNCHANGED <<selectedVars, data, selectedYears, renderVars, tile>>

\* the state after new GeoMap(...): nothing computed, nothing drawn
InitGeoMap ==
    /\ groupedData = <<>>
    /\ domain = <<Rat(0, 1), Rat(1, 1)>>
    /\ countryCodesOfSelected = {}
    /\ selectedCountries = {}
    /\ viewport = "default"
    /\ baseLayer = <<>>
    /\ selectedLayer = <<>>
    /\ legend = [title |-> "", rows |-> <<>>]
    /\ tooltip = HiddenTooltip
    /\ hovered = NoTarget
    /\ hoverEvents = <<>>
    /\ lookups = 0
    /\ lastEvent = [type |-> "none", target |-> NoTarget, previous |-> "none"]

\* getTileColor on the value of tile
applyTileColor ==
    /\ tile.colour = ""
    /\ tile' = [d |-> tile.d, colour |-> getTileColor(tile.d)]
    /\ UNCHANGED <<selectedVars, data, selectedYears, renderVars, pathVars,
                   pointerVars, lastEvent>>

NoTile == [d |-> NaN, colour |-> ""]

-----------------------------------------------------------------------------
(* Specifications *)

\* the focus area and the comparison list: addComparisonArea,
\* removeComparisonArea and setArea
Init ==
    /\ InitSelected
    /\ InitGeoMap
    /\ data = SampleData
    /\ selectedYears = DataYears
    /\ tile = NoTile

Next ==
    \/ \E n \in AreaNames : addComparisonArea(n) /\ UNCHANGED geoMapVars
    \/ \E n \in AreaNames : removeComparisonArea(n) /\ UNCHANGED geoMapVars
    \/ \E r \in RegionArgs, c \in CountryArgs : setArea(r, c) /\ UNCHANGED geoMapVars

Spec == Init /\ [][Next]_vars

\* addComparisonArea alone
NextAdd == \E n \in AreaNames : addComparisonArea(n) /\ UNCHANGED geoMapVars

SpecAdd == Init /\ [][NextAdd]_vars

\* the overflow event: addComparisonArea on every name, a registered
\* dispatcher and a focus area that may hold a country
NextOverflow ==
    \/ \E n \in AreaNames : addComparisonArea(n) /\ UNCHANGED geoMapVars
    \/ \E r \in RegionArgs, c \in CountryArgs : setArea(r, c) /\ UNCHANGED geoMapVars
    \/ \E d \in BOOLEAN, events \in BOOLEAN :
          setDispatcher(d, events) /\ UNCHANGED geoMapVars

SpecOverflow == Init /\ [][NextOverflow]_vars

\* every mutator of the selection, on the smallest name sets
NextItems ==
    \/ \E n \in ItemAreaNames : addComparisonArea(n) /\ UNCHANGED geoMapVars
    \/ \E n \in ItemAreaNames : removeComparisonArea(n) /\ UNCHANGED geoMapVars
    \/ \E r \in ItemRegionArgs, c \in ItemCountryArgs :
          setArea(r, c) /\ UNCHANGED geoMapVars
    \/ \E i \in ItemIndicatorArgs : setIndicator(i) /\ UNCHANGED geoMapVars
    \/ \E min \in YearArgs, max \in YearArgs :
          setTimeInterval(min, max) /\ UNCHANGED geoMapVars
    \/ \E r \in ItemRegionArgs, c \in ItemCountryArgs, i \in ItemIndicatorArgs,
          min \in YearArgs, max \in YearArgs :
          setItems(r, c, i, min, max) /\ UNCHANGED geoMapVars

SpecItems == Init /\ [][NextItems]_vars

\* new Selected(undefined, selectedComparisonAreas): the constructor stores
\* the list it is given as it is, duplicates included
InitialAreaNames == {"France", "Asia", "Europe"}

InitWithComparisons ==
    /\ area = [region |-> "World", country |-> ""]
    /\ comparisonAreas \in UNION {[1..n -> InitialAreaNames] : n \in 0..MaxInitialAreas}
    /\ indicator = POPULATION_TOTAL
    /\ timeInterval = <<>>
    /\ allSelectedAreas = updateAllSelectedAreas(area, comparisonAreas)
    /\ dispatcher = FALSE
    /\ dispatcherEvents = FALSE
    /\ emitted = 0
    /\ lastCall = Call("constructor", "", "", "", "", Undefined, Undefined)
    /\ InitGeoMap
    /\ data = SampleData
    /\ selectedYears = DataYears
    /\ tile = NoTile

\* removeComparisonArea on a list the constructor was given; "france" is a
\* raw spelling of an entry
NextRemove ==
    \E n \in InitialAreaNames \cup {"france"} :
        removeComparisonArea(n) /\ UNCHANGED geoMapVars

SpecRemove == InitWithComparisons /\ [][NextRemove]_vars

\* a render cycle on the selection as it is
render == UNCHANGED selectedVars /\ updateVis

\* every data set, active year set and active indicator: render cycles on
\* the default indicator, and setIndicator of the other one followed by a
\* render cycle
InitData ==
    /\ InitSelected
    /\ InitGeoMap
    /\ data \in DataSets
    /\ selectedYears \in ActiveYearSets
    /\ tile = NoTile

NextData ==
    \/ render
    \/ \E i \in DataIndicators \ {POPULATION_TOTAL} : setIndicator(i) /\ updateVis

SpecData == InitData /\ [][NextData]_vars

\* getTileColor on every scaled value of TileInputs
InitTile ==
    /\ InitSelected
    /\ InitGeoMap
    /\ data = SampleData
    /\ selectedYears = DataYears
    /\ tile \in {[d |-> x, colour |-> ""] : x \in TileInputs}

NextTile == applyTileColor

SpecTile == InitTile /\ [][NextTile]_vars

\* the pointer over the map of every data set of one year, all years active
InitTooltip ==
    /\ InitSelected
    /\ InitGeoMap
    /\ data \in {d \in DataSets : \A i \in 1..Len(d) : d[i].Year = 1}
    /\ selectedYears = DataYears
    /\ tile = NoTile

NextTooltip ==
    \/ render
    \/ \E t \in Targets : handleMouseEnter(t)
    \/ \E t \in Targets : handleMouseLeave(t)

SpecTooltip == InitTooltip /\ [][NextTooltip]_vars

\* the map of the sample data: every mutator of the focus area and the
\* comparison list, each followed by a render cycle, and the pointer
NextMap ==
    \/ \E n \in MapAreaNames : addComparisonArea(n) /\ updateVis
    \/ \E n \in MapAreaNames : removeComparisonArea(n) /\ updateVis
    \/ \E r \in RegionArgs, c \in CountryArgs : setArea(r, c) /\ updateVis
    \/ \E t \in Targets : handleMouseEnter(t)
    \/ \E t \in Targets : handleMouseLeave(t)

SpecMap == Init /\ [][NextMap]_vars

\* the time interval and the map: setTimeInterval and setIndicator, each
\* followed by a render cycle.  selected.selectedYears is a field no method
\* of Selected assigns: it is what its creator stored
InitYears ==
    /\ InitSelected
    /\ InitGeoMap
    /\ data = SampleData
    /\ selectedYears \in ActiveYearSets
    /\ tile = NoTile

NextYears ==
    \/ \E min \in YearArgs, max \in YearArgs : setTimeInterval(min, max) /\ updateVis
    \/ \E i \in DataIndicators : setIndicator(i) /\ updateVis

SpecYears == InitYears /\ [][NextYears]_vars

\* new Selected(undefined, undefined, undefined, undefined, dispatcher): a
\* dispatcher given to the constructor or none, and addComparisonArea
InitInjected ==
    /\ area = [region |-> "World", country |-> ""]
    /\ comparisonAreas = <<>>
    /\ indicator = POPULATION_TOTAL
    /\ timeInterval = <<>>
    /\ allSelectedAreas = updateAllSelectedAreas(area, comparisonAreas)
    /\ dispatcher \in BOOLEAN
    /\ dispatcherEvents = FALSE
    /\ emitted = 0
    /\ lastCall = Call("constructor", "", "", "", "", Undefined, Undefined)
    /\ InitGeoMap
    /\ data = SampleData
    /\ selectedYears = DataYears
    /\ tile = NoTile

NextInjected == \E n \in AreaNames : addComparisonArea(n) /\ UNCHANGED geoMapVars

SpecInjected == InitInjected /\ [][NextInjected]_vars

-----------------------------------------------------------------------------
(* Properties *)

NoDuplicates(list) ==
    \A i \in 1..Len(list), j \in 1..Len(list) : i # j => list[i] # list[j]

\* C1: after any sequence of addComparisonArea calls on a default-constructed
\* Selected, comparisonAreas has at most 4 entries, no duplicate entry, and
\* neither the focus region name nor the focus country name.  (SpecAdd)
C1_AddKeepsListValid ==
    /\ Len(comparisonAreas) <= 4
    /\ NoDuplicates(comparisonAreas)
    /\ ~Includes(comparisonAreas, area.region)
    /\ ~Includes(comparisonAreas, area.country)

\* a full list on which the last call tried to add a name it already holds
C1_FullListRejectsDuplicate ==
    /\ lastCall.op = "addComparisonArea"
    /\ Len(comparisonAreas) = 4
    /\ Includes(comparisonAreas, formatCountryOrRegionNames(lastCall.name))
    /\ comparisonAreas[4] # formatCountryOrRegionNames(lastCall.name)

\* C2: in every state reachable by addComparisonArea, removeComparisonArea and
\* setArea, comparisonAreas contains neither area.region nor area.country.
C2_FocusNeverInComparisonAreas ==
    /\ ~Includes(comparisonAreas, area.region)
    /\ ~Includes(comparisonAreas, area.country)

\* C3: after construction and after every public mutator, allSelectedAreas has
\* length comparisonAreas.length + 1, starts with the focus country when it is
\* non-empty and with the focus region otherwise, and continues with
\* comparisonAreas in order.  (SpecItems)
C3_AllSelectedAreasIsFocusThenComparisons ==
    /\ Len(allSelectedAreas) = Len(comparisonAreas) + 1
    /\ allSelectedAreas[1] = IF area.country # "" THEN area.country ELSE area.region
    /\ \A i \in 1..Len(comparisonAreas) : allSelectedAreas[i + 1] = comparisonAreas[i]

\* setItems has just set a focus country while the comparison list is not empty
C3_SetItemsWithCountryAndComparisons ==
    /\ lastCall.op = "setItems"
    /\ lastCall.country = area.country
    /\ area.country # ""
    /\ Len(comparisonAreas) >= 1

\* C4: with a dispatcher and its events registered, addComparisonArea of a new
\* name (not the focus, not in the list) on a list of 4 entries emits
\* ERROR_TOO_MANY_COMPARISONS exactly once and leaves comparisonAreas and
\* allSelectedAreas unchanged.  (SpecOverflow)
C4_OverflowEmitsOnceAndKeepsList ==
    [][ ( /\ lastCall'.op = "addComparisonArea"
          /\ dispatcher /\ dispatcherEvents
          /\ Len(comparisonAreas) = 4
          /\ ~Includes(comparisonAreas, formatCountryOrRegionNames(lastCall'.name))
          /\ formatCountryOrRegionNames(lastCall'.name) # area.region
          /\ formatCountryOrRegionNames(lastCall'.name) # area.country )
        => ( /\ emitted' = 1
             /\ comparisonAreas' = comparisonAreas
             /\ allSelectedAreas' = allSelectedAreas ) ]_vars

\* a fifth, new name was refused and the event was emitted
C4_FifthNameRefused ==
    /\ lastCall.op = "addComparisonArea"
    /\ dispatcher /\ dispatcherEvents
    /\ Len(comparisonAreas) = 4
    /\ ~Includes(comparisonAreas, formatCountryOrRegionNames(lastCall.name))
    /\ formatCountryOrRegionNames(lastCall.name) # area.region
    /\ formatCountryOrRegionNames(lastCall.name) # area.country
    /\ emitted = 1

\* C5: in every reachable state, addComparisonArea of a (non-empty) name equal
\* to the focus region or the focus country is a silent no-op: comparisonAreas
\* is unchanged and no ERROR_TOO_MANY_COMPARISONS event is emitted.
\* (SpecOverflow)
C5_AddingFocusIsSilent ==
    [][ ( /\ lastCall'.op = "addComparisonArea"
          /\ lastCall'.name # ""
          /\ \/ lastCall'.name = area.region
             \/ lastCall'.name = area.country )
        => ( /\ comparisonAreas' = comparisonAreas
             /\ emitted' = 0 ) ]_vars

C7_FocusRegionLeavesComparisonAreas ==
    [][ ( /\ lastCall'.op = "setArea"
          /\ Includes(comparisonAreas, lastCall'.region) )
        => ( /\ area'.region = lastCall'.region
             /\ ~Includes(comparisonAreas', lastCall'.region) ) ]_vars

\* an argument that was passed (not undefined)
Provided(year) == year # Undefined

\* C8: setTimeInterval with exactly one of min/max provided leaves timeInterval
\* and all other selection state unchanged.  (SpecItems)
C8_PartialIntervalIsIgnored ==
    [][ ( /\ lastCall'.op = "setTimeInterval"
          /\ Provided(lastCall'.min) # Provided(lastCall'.max) )
        => UNCHANGED selection ]_vars

\* an interval was set, and the last call passed only one bound, different
\* from the one kept
C8_OneBoundOnSetInterval ==
    /\ lastCall.op = "setTimeInterval"
    /\ Provided(lastCall.min) # Provided(lastCall.max)
    /\ timeInterval # <<>>
    /\ \/ TruthyYear(lastCall.min) /\ lastCall.min # timeInterval[1]
       \/ TruthyYear(lastCall.max) /\ lastCall.max # timeInterval[2]

\* C9: a mutator call with invalid input leaves the whole selection state
\* unchanged: setArea with no region and a country outside the active region,
\* setIndicator with an empty code, setTimeInterval with a missing bound.
\* (SpecItems)
C9_InvalidInputKeepsSelection ==
    [][ ( \/ /\ lastCall'.op = "setArea"
             /\ lastCall'.region = ""
             /\ lastCall'.country # ""
             /\ lastCall'.country \notin getCountriesOfRegion(area.region)
          \/ /\ lastCall'.op = "setIndicator"
             /\ lastCall'.indicator = ""
          \/ /\ lastCall'.op = "setTimeInterval"
             /\ (~Provided(lastCall'.min) \/ ~Provided(lastCall'.max)) )
        => UNCHANGED selection ]_vars

\* C10: in every state reachable by setArea calls, area.country is empty or a
\* member of getCountriesOfRegion(area.region).
C10_CountryInsideFocusRegion ==
    area.country = "" \/ area.country \in getCountriesOfRegion(area.region)


\* C11: removeComparisonArea(name) removes exactly the first entry of
\* comparisonAreas that is exactly equal to name and keeps the other entries
\* in order; with no such entry comparisonAreas and allSelectedAreas are
\* unchanged; the focus area, indicator and timeInterval are unchanged in
\* both cases.  (SpecRemove)
C11_RemoveFirstExactMatch ==
    [][ lastCall'.op = "removeComparisonArea" =>
          LET matches == {i \in 1..Len(comparisonAreas) :
                             comparisonAreas[i] = lastCall'.name}
          IN  /\ area' = area
              /\ indicator' = indicator
              /\ timeInterval' = timeInterval
              /\ IF matches = {}
                 THEN /\ comparisonAreas' = comparisonAreas
                      /\ allSelectedAreas' = allSelectedAreas
                 ELSE LET k == CHOOSE i \in matches : \A j \in matches : i <= j
                      IN  comparisonAreas' =
                              SubSeq(comparisonAreas, 1, k - 1)
                              \o SubSeq(comparisonAreas, k + 1, Len(comparisonAreas))
        ]_vars

\* the name was removed from a list that held it more than once: a later
\* entry equal to it is still there, behind another name
C11_RemovedOneOfTwo ==
    /\ lastCall.op = "removeComparisonArea"
    /\ Len(comparisonAreas) = MaxInitialAreas - 1
    /\ comparisonAreas[1] # lastCall.name
    /\ comparisonAreas[2] = lastCall.name


RECURSIVE SumOfValues(_, _)
SumOfValues(obs, indices) ==
    IF indices = {} THEN 0
    ELSE LET i == CHOOSE k \in indices : TRUE
         IN  obs[i].Value + SumOfValues(obs, indices \ {i})

\* the observations of country c with the active indicator and an active year
Matching(c) ==
    {i \in 1..Len(data) : /\ data[i].CountryCode = c
                          /\ data[i].IndicatorName = indicator
                          /\ data[i].Year \in selectedYears}

\* C12: after updateData, groupedData has an entry for country code c exactly
\* when c is not "WLD" and some observation of c has the active indicator and
\* a year of the active year set, and the entry is the sum of the Value of
\* exactly those observations divided by their count; a country with no such
\* observation has no entry.  (SpecData)
C12_GroupedDataIsMeanOfMatching ==
    lastEvent.type = "render" =>
        /\ DOMAIN groupedData \subseteq DataCountryCodes
        /\ \A c \in DataCountryCodes :
              /\ c \in DOMAIN groupedData <=> (c # "WLD" /\ Matching(c) # {})
              /\ c \in DOMAIN groupedData =>
                    /\ ~groupedData[c].nan
                    /\ groupedData[c].num * Cardinality(Matching(c))
                         = SumOfValues(data, Matching(c)) * groupedData[c].den

\* a country with two matching observations of different values, rendered
C12_MeanOfTwoValues ==
    /\ lastEvent.type = "render"
    /\ \E c \in DOMAIN groupedData :
          /\ Cardinality(Matching(c)) = 2
          /\ \E i \in Matching(c), j \in Matching(c) : data[i].Value # data[j].Value
          /\ groupedData[c] = Rat(1, 1)

\* C13: after updateDomain the domain of the colour scale is [min, max] of
\* the aggregated values, except that it is [0, 1] when every aggregated
\* value is 0; it is never [0, 0].  (SpecData)
C13_DomainIsExtentOrUnit ==
    (lastEvent.type = "render" /\ DOMAIN groupedData # {}) =>
        LET values == {groupedData[c] : c \in DOMAIN groupedData}
            lo == CHOOSE v \in values : \A w \in values : v.num * w.den <= w.num * v.den
            hi == CHOOSE v \in values : \A w \in values : v.num * w.den >= w.num * v.den
        IN  /\ domain # <<Rat(0, 1), Rat(0, 1)>>
            /\ IF \A v \in values : v.num = 0
               THEN domain = <<Rat(0, 1), Rat(1, 1)>>
               ELSE domain = <<lo, hi>>

\* every aggregated value is 0, of two countries
C13_AllMeansZero ==
    /\ lastEvent.type = "render"
    /\ Cardinality(DOMAIN groupedData) = 2
    /\ \A c \in DOMAIN groupedData : groupedData[c] = Rat(0, 1)
    /\ domain = <<Rat(0, 1), Rat(1, 1)>>


\* C14: getTileColor gives a scaled value d of [0, 1] the colour of exactly
\* one of 5 bins, upper thresholds exclusive and lower inclusive: d > 0.8,
\* 0.6 < d <= 0.8, 0.4 < d <= 0.6, 0.2 < d <= 0.4, d <= 0.2; d = 0.8 gets the
\* colour of the '> 0.6' bin; NaN gets the gray colour, which no number gets.
\* (SpecTile)
C14_TileColourBins ==
    tile.colour # "" =>
        LET n == tile.d.num
            m == tile.d.den
        IN  IF tile.d.nan THEN tile.colour = "#808080"
            ELSE /\ tile.colour # "#808080"
                 /\ 5 * n > 4 * m => tile.colour = "#08519c"
                 /\ (5 * n > 3 * m /\ 5 * n <= 4 * m) => tile.colour = "#3182bd"
                 /\ (5 * n > 2 * m /\ 5 * n <= 3 * m) => tile.colour = "#6baed6"
                 /\ (5 * n > m /\ 5 * n <= 2 * m) => tile.colour = "#bdd7e7"
                 /\ 5 * n <= m => tile.colour = "#eff3ff"

\* the scaled value 0.8 was given the colour of the '> 0.6' bin
C14_FourFifthsInSecondBin ==
    /\ tile.d = Rat(4, 5)
    /\ tile.colour = "#3182bd"


\* the country code of a feature has no entry in groupedData
NoEntry(id) == convertToAlpha3(id) \notin DOMAIN groupedData

\* the tooltip is shown for the path the pointer entered last
TooltipShownFor(id) ==
    /\ lastEvent.type = "mouseenter"
    /\ lastEvent.target.id = id
    /\ tooltip.display

\* C15: every feature without an entry in groupedData has the gray fill on
\* the base layer, and the tooltip shown when the pointer enters it has the
\* value 'N/A'.  (SpecTooltip)
C15_MissingIsGrayAndNA ==
    \A id \in DOMAIN baseLayer :
        NoEntry(id) =>
            /\ baseLayer[id].fill = "#808080"
            /\ TooltipShownFor(id) => tooltip.average = NA

\* the pointer is on South Korea, which has no entry while France has one
C15_HoverCountryWithoutEntry ==
    /\ TooltipShownFor(410)
    /\ tooltip.name = "South Korea"
    /\ tooltip.average = NA
    /\ "FRA" \in DOMAIN groupedData
    /\ NoEntry(410)
    /\ baseLayer[410].fill = "#808080"
    /\ baseLayer[250].fill # "#808080"

\* C16: missing and zero are distinct: the tooltip of a country has the value
\* 'N/A' exactly when groupedData has no entry for it, and its fill is gray
\* exactly when groupedData has no entry for it; a country whose mean is 0
\* has a numeric tooltip value and the colour of a value bin.  (SpecTooltip)
C16_NAOnlyForMissing ==
    \A id \in DOMAIN baseLayer :
        /\ baseLayer[id].fill = "#808080" <=> NoEntry(id)
        /\ TooltipShownFor(id) => (tooltip.average = NA <=> NoEntry(id))


\* C18: setArea changes the comparison list only by removing the entry that
\* refers to the new focus area: the entries that are neither the new focus
\* region nor name-equivalent to the new focus country are all still there
\* after the call, in the same order, also when the matching entry is an
\* alternate spelling of the focus country.
C18_SetAreaKeepsOtherEntries ==
    [][ lastCall'.op = "setArea" =>
          LET other(entry) == /\ entry # area'.region
                              /\ ~isSameCountryName(entry, area'.country)
          IN  SelectSeq(comparisonAreas', other) = SelectSeq(comparisonAreas, other)
        ]_vars


\* the class list of a path does not encode a parseable country code: it has
\* no second class, or the code part of the second class is not a number
Unparseable(t) ==
    \/ Len(ClassList(t)) < 2
    \/ ~ClassList(t)[2][3].isNumber

\* C17: a pointer-enter or pointer-leave event on a path whose class list
\* does not encode a parseable country code does nothing: the tooltip is
\* neither shown nor hidden, no border colour changes, no Country Directory
\* lookup is made and no MAP_ITEM_HOVER / MAP_ITEM_UNHOVER event is emitted.
C17_UnparseableTargetIsIgnored ==
    [][ ( /\ lastEvent'.type \in {"mouseenter", "mouseleave"}
          /\ hovered' # hovered
          /\ Unparseable(lastEvent'.target) )
        => /\ tooltip' = tooltip
           /\ UNCHANGED pathVars
           /\ lookups' = 0
           /\ hoverEvents' = <<>>
      ]_vars

\* C19: after a render cycle the selected layer holds exactly the features
\* whose id is among the numeric codes of allSelectedAreas, each with fill
\* none, twice the base stroke width, and the focus colour exactly when its
\* id is the code of the focus country, the comparison colour otherwise; the
\* base layer holds every feature, with a white stroke.  (SpecMap)
C19_RenderedLayers ==
    lastEvent.type = "render" =>
        /\ DOMAIN selectedLayer =
               {f.id : f \in {g \in Features : g.id \in getCountryNumCodes(allSelectedAreas)}}
        /\ \A id \in DOMAIN selectedLayer :
              /\ selectedLayer[id].fill = "none"
              /\ selectedLayer[id].strokeWidth = 2 * StrokeWidth
              /\ selectedLayer[id].stroke =
                     IF id = getCountryNumCode(area.country)
                     THEN FocusedAreaColour ELSE ComparisonAreaColour
        /\ DOMAIN baseLayer = FeatureIds
        /\ \A id \in DOMAIN baseLayer : baseLayer[id].stroke = "white"

\* rendered with France as the focus country and South Korea compared to it
C19_FocusAndComparisonDrawn ==
    /\ lastEvent.type = "render"
    /\ area.country = "France"
    /\ DOMAIN selectedLayer = {250, 410}
    /\ selectedLayer[250].stroke = FocusedAreaColour
    /\ selectedLayer[410].stroke = ComparisonAreaColour

\* C20: after the pointer has left a country it had entered, with any
\* mutations of the selection, each followed by a render cycle, in between,
\* the tooltip is hidden, the base path of the country is white, its
\* selected path, if there is one, has the focus or comparison colour the
\* render cycle computes from the current selection, and no path is black.
\* (SpecMap)
C20_LeaveRestoresBorders ==
    lastEvent.type = "mouseleave" =>
        LET id == lastEvent.target.id
        IN  /\ ~tooltip.display
            /\ id \in DOMAIN baseLayer => baseLayer[id].stroke = "white"
            /\ id \in DOMAIN selectedLayer =>
                  selectedLayer[id].stroke =
                      IF id = getCountryNumCode(area.country)
                      THEN FocusedAreaColour ELSE ComparisonAreaColour
            /\ \A i \in DOMAIN baseLayer : baseLayer[i].stroke # "black"
            /\ \A i \in DOMAIN selectedLayer : selectedLayer[i].stroke # "black"

\* the pointer has left the base path of France after a render cycle that
\* ran while it was there; France is now the focus country
C20_LeftAfterRenderDuringHover ==
    /\ lastEvent = [type |-> "mouseleave", target |-> [layer |-> "base", id |-> 250],
                    previous |-> "render"]
    /\ lastCall.op = "setArea"
    /\ area.country = "France"
    /\ selectedLayer[250].stroke = FocusedAreaColour
    /\ hoverEvents = <<[event |-> "MAP_ITEM_UNHOVER", name |-> "France"]>>


\* the scaled lower bound of the value bin that has the colour
BinLowerBound(colour) ==
    CASE colour = "#08519c" -> Rat(4, 5)
      [] colour = "#3182bd" -> Rat(3, 5)
      [] colour = "#6baed6" -> Rat(2, 5)
      [] colour = "#bdd7e7" -> Rat(1, 5)
      [] colour = "#eff3ff" -> Rat(0, 1)
      [] OTHER -> NaN

\* C21: in the legend each of the 5 value-bin swatches has the label
\* invert(lower bound of the bin whose colour it shows): invert(0.8) for the
\* swatch of the '> 0.8' bin, down to invert(0) for the lowest bin; the
\* sixth swatch is gray and has the label 'N/A'.
C21_LegendLabelIsLowerBound ==
    lastEvent.type = "render" =>
        /\ Len(legend.rows) = 6
        /\ {legend.rows[i].colour : i \in 1..5}
              = {"#08519c", "#3182bd", "#6baed6", "#bdd7e7", "#eff3ff"}
        /\ \A i \in 1..5 :
              legend.rows[i].label =
                  legendFormat(indicatorScaleInvert(domain,
                                                    BinLowerBound(legend.rows[i].colour)))
        /\ legend.rows[6].colour = "#808080"
        /\ legend.rows[6].label = NA


\* C22: whenever a render cycle runs after mutators of the Selection Model,
\* the year set that filters the observations is the set of the years from
\* timeInterval.min to timeInterval.max, so the aggregate covers the interval
\* the tooltip displays; a successful setTimeInterval shows in the year set
\* of the next render cycle.
C22_YearSetIsTimeInterval ==
    (lastEvent.type = "render" /\ timeInterval # <<>>) =>
        selectedYears = {y \in 0..(MaxYear + 1) :
                            timeInterval[1] <= y /\ y <= timeInterval[2]}


\* C23: in every state reachable by setTimeInterval and setItems calls with
\* any integer arguments, timeInterval is unset or has both bounds, with
\* min <= max.
C23_IntervalIsOrdered ==
    timeInterval = <<>> \/ (Len(timeInterval) = 2 /\ timeInterval[1] <= timeInterval[2])


\* C24: the overflow event is skipped only when no dispatcher is registered:
\* with a dispatcher given to the constructor and setDispatcher never called,
\* addComparisonArea on a list of 4 entries emits ERROR_TOO_MANY_COMPARISONS.
C24_InjectedDispatcherEmits ==
    [][ ( /\ lastCall'.op = "addComparisonArea"
          /\ dispatcher
          /\ Len(comparisonAreas) = 4 )
        => emitted' = 1 ]_vars


\* C25: hover notifications are paired: in every interleaving of
\* pointer-enter, mutations of the selection and pointer-leave on the same
\* country, the pointer-leave emits MAP_ITEM_UNHOVER(c) exactly when the
\* matching pointer-enter emitted MAP_ITEM_HOVER(c).
C25_HoverAndUnhoverArePaired ==
    [][ ( /\ lastEvent'.type = "mouseleave"
          /\ hovered # NoTarget
          /\ hovered' = NoTarget )
        => \A f \in Features :
              (hoverEvents' = <<[event |-> "MAP_ITEM_UNHOVER", name |-> f.name]>>)
              <=> (hoverEvents = <<[event |-> "MAP_ITEM_HOVER", name |-> f.name]>>)
      ]_vars

====
